---- MODULE Spec2Model ----
(***************************************************************************)
(* State-machine model of demo.py, the ScannerTrigger demonstration        *)
(* script.  The script is straight-line code around one polling loop; pc   *)
(* is the position of the interpreter in it.  The scannertrigger library   *)
(* (ScannerTrigger.create, open, waitForTrigger, getTrigger, triggerCnt,   *)
(* triggerTime, close) is not part of the source file: the Lib* operators  *)
(* model it from the specification and the script's docstring.  Time is    *)
(* counted in whole seconds.                                               *)
(***************************************************************************)
EXTENDS Integers, Sequences, FiniteSets, TLC

VARIABLES
    pc,                     \* position in the script
    expInfo,                \* the dialog dictionary (lines 57-63)
    win,                    \* "none" | "open" | "closed"
    portType,               \* line 123
    dummyScans,             \* line 124
    MR_settings,            \* lines 126-171
    now,                    \* wall-clock time, seconds
    timeOutStart,           \* time of the last reset of timeOutClock
    globalStart,            \* time of the last reset of globalClock
    escPending,             \* an escape keypress waits in the event buffer
    stState,                \* "none" | "created" | "open" | "closed"
    stCnt,                  \* st.triggerCnt
    stTime,                 \* st.triggerTime
    waitSkipArg,            \* the skip argument waitForTrigger was called with
    triggered,              \* line 223 / 247
    prevTriggerTime,        \* line 231 / 243
    deltaTriggerTimeArray,  \* line 188
    shown,                  \* the texts drawn with stimTrigger, in order
    polled,                 \* getTrigger has been called at least once
    pollsInIter,            \* getTrigger calls in the current loop iteration
    nReported,              \* getTrigger calls that reported a trigger
    loopExit,               \* "none" | "escape" | "timeout"
    logged,                 \* the statistics lines logged (lines 254-257)
    hist,                   \* the histogram displayed (line 263-268)
    exc,                    \* the unhandled exception that ended the script
    trace                   \* the calls made outside the loop body, in order

vars == <<pc, expInfo, win, portType, dummyScans, MR_settings, now,
          timeOutStart, globalStart, escPending, stState, stCnt, stTime,
          waitSkipArg, triggered, prevTriggerTime, deltaTriggerTimeArray,
          shown, polled, pollsInIter, nReported, loopExit, logged, hist,
          exc, trace>>

----------------------------------------------------------------------------
\* Bounds of the model.

\* Largest "skip scans" value entered in the dialog.
MaxSkip == 1

\* Largest number of triggers getTrigger reports after the first one.
MaxTriggers == 2

\* Seconds by which one step of the clock advances it.
TickLen == 25

\* The clock stops advancing once timeOutClock reads this much.
MaxElapsed == 125

\* Longest time the blocking wait for the first trigger lasts.
MaxWait == 25

----------------------------------------------------------------------------
\* Program constants.

\* The ceiling of the polling loop, in seconds (line 234).
TimeOut == 100

\* The device types offered by the dialog (lines 57-62).
Choices == <<"keyboard", "serial", "parallel", "cedrus", "launchscan", "dummy">>

\* A device-type string that is none of the offered ones.
OtherTypes == {"usb"}

\* MR_settings before any branch of lines 126-171 has bound it.
Undefined == [undefined |-> TRUE]

\* The branches of the if/elif chain of lines 126-171.
RecognizedFive == {"keyboard", "dummy", "serial", "parallel", "cedrus"}

Recognized == {"keyboard", "dummy", "serial", "parallel", "cedrus", "launchscan"}

\* The dictionary each branch binds to MR_settings (lines 126-171).
Settings(pt, skip) ==
    CASE pt = "keyboard"   -> [keyList |-> "t", maxWait |-> 9999999]
      [] pt = "dummy"      -> [tr |-> 1]
      [] pt = "serial"     -> [port |-> "COM5", baudrate |-> 9600, sync |-> "5"]
      [] pt = "parallel"   -> [address |-> "0x0378", pin |-> 10, edge |-> "RISING"]
      [] pt = "cedrus"     -> [devicenr |-> 0, sync |-> 4]
      [] pt = "launchscan" -> [wait_msg |-> "Waiting for scanner",
                               esc_key |-> "escape", log |-> TRUE,
                               wait_timeout |-> 100,
                               settings |-> [TR |-> 1, volumes |-> 100,
                                             sync |-> "t", skip |-> skip,
                                             sound |-> FALSE]]
      [] OTHER             -> Undefined

----------------------------------------------------------------------------
\* The scannertrigger library, as the specification and the docstring
\* describe it.

\* create() followed by open(): both succeed, or one of them raises.
LibOpenOutcomes == {"ok", "create_raises", "open_raises"}

\* waitForTrigger blocks until the first accepted trigger, or raises.
LibWaitOutcomes == {"trigger", "raises"}

\* triggerCnt when waitForTrigger(skip) returns: zero-based, the skipped
\* triggers counted (docstring: the first shown trigger is trigger
\* <scans to skip>).
LibFirstCnt(skip) == skip

\* triggerTime when waitForTrigger returns at globalClock time t.  The
\* docstring counts onset times from the first trigger, so the library may
\* restart globalClock at it (triggerTime 0); or it stamps the trigger with
\* the running clock (triggerTime t).
LibFirstTimes(t) == {0, t}

\* getTrigger is a non-blocking poll: TRUE when a new trigger has arrived.
LibPollResults(cnt, skip) ==
    IF cnt - skip < MaxTriggers THEN {TRUE, FALSE} ELSE {FALSE}

\* triggerCnt and triggerTime after a poll that returned r at clock time t:
\* a reported trigger is counted and stamped, no trigger changes nothing.
LibNextCnt(cnt, r) == IF r THEN cnt + 1 ELSE cnt

LibNextTime(time, r, t) == IF r THEN t ELSE time

----------------------------------------------------------------------------
\* Pure helpers of the script.

\* What the script passes as skip= to waitForTrigger (line 223).
SkipArgZero(n) == 0

SkipArg(n) == n

\* Where an except-handler of lines 201-205 / 225-229 leaves the script:
\* core.quit() ends the process whatever would have come next.
HandlerFallsThrough(next) == next

HandlerEntersLoop(next) == "check"

HandlerNext(next) == "quit"

\* The loop condition of line 234: keys is "an escape keypress was
\* returned by event.getKeys", t is timeOutClock.getTime().
LoopCondNoCeiling(keys, t) == ~keys

LoopCond(keys, t) == ~keys /\ t < TimeOut

\* The guard of line 235.
RecordEveryPoll(trig) == TRUE

RecordWhenIdle(trig) == ~trig

ShouldRecord(trig) == trig

\* The value line 243 assigns to prevTriggerTime.
KeepPrev(prev, t) == prev

NewPrev(prev, t) == t

\* The text of line 239-242, before formatting.
Txt(cnt, t, delta, skip) == [cnt |-> cnt, onset |-> t, delta |-> delta, skip |-> skip]

\* timeOutClock.getTime() and globalClock.getTime().
TimeOutClock == now - timeOutStart

GlobalClock == now - globalStart

----------------------------------------------------------------------------
\* The statistics of lines 253-268.  A quotient is kept as the pair
\* <<numerator, denominator>>; 0/0 stands for numpy's nan.

RECURSIVE SumSeq(_)
SumSeq(s) == IF s = <<>> THEN 0 ELSE Head(s) + SumSeq(Tail(s))

RECURSIVE SumSq(_)
SumSq(s) == IF s = <<>> THEN 0 ELSE Head(s) * Head(s) + SumSq(Tail(s))

\* deltaTriggerTimeArray[1:] (line 253): the first entry dropped, the empty
\* list left empty.
DropFirst(a) == IF a = <<>> THEN <<>> ELSE Tail(a)

\* delta.mean(): the sum over the length, nan for an empty array.
Mean(d) == <<SumSeq(d), Len(d)>>

\* delta.std() squared: (n * sum of squares - square of sum) / n^2.
Variance(d) == <<Len(d) * SumSq(d) - SumSeq(d) * SumSeq(d), Len(d) * Len(d)>>

\* delta.max() and delta.min() of a non-empty array.
Max(d) == CHOOSE x \in {d[i] : i \in 1..Len(d)} : \A j \in 1..Len(d) : d[j] <= x

Min(d) == CHOOSE x \in {d[i] : i \in 1..Len(d)} : \A j \in 1..Len(d) : d[j] >= x

\* delta.max() raises ValueError on a zero-size array (line 256).
MaxRaises(d) == Len(d) = 0

\* int(np.ceil(4 * n ** (1.0/3))) (line 261): the least b with b^3 >= 64 n.
BinWidth(n) ==
    CHOOSE b \in 0..(4 * n + 4) :
        /\ b * b * b >= 64 * n
        /\ (b = 0 \/ (b - 1) * (b - 1) * (b - 1) < 64 * n)

----------------------------------------------------------------------------
Init ==
    /\ pc = "dialog"
    /\ expInfo = [triggering |-> Choices, skip_scans |-> 0]
    /\ win = "none"
    /\ portType = ""
    /\ dummyScans = 0
    /\ MR_settings = Undefined
    /\ now = 0
    /\ timeOutStart = 0
    /\ globalStart = 0
    /\ escPending = FALSE
    /\ stState = "none"
    /\ stCnt = 0
    /\ stTime = 0
    /\ waitSkipArg = -1
    /\ triggered = FALSE
    /\ prevTriggerTime = 0
    /\ deltaTriggerTimeArray = <<>>
    /\ shown = <<>>
    /\ polled = FALSE
    /\ pollsInIter = 0
    /\ nReported = 0
    /\ loopExit = "none"
    /\ logged = <<>>
    /\ hist = [shown |-> FALSE, bins |-> 0, n |-> 0]
    /\ exc = "none"
    /\ trace = <<>>

\* Lines 65-68: the dialog sets the two fields; Cancel quits.
Dialog ==
    /\ pc = "dialog"
    /\ \E t \in {Choices[i] : i \in 1..Len(Choices)} \cup OtherTypes,
          n \in 0..MaxSkip, ok \in BOOLEAN :
         /\ expInfo' = [triggering |-> t, skip_scans |-> n]
         /\ IF ok
              THEN /\ pc' = "stimuli"
                   /\ trace' = trace
              ELSE /\ pc' = "quit"
                   /\ trace' = Append(trace, "quit")
    /\ UNCHANGED <<win, portType, dummyScans, MR_settings, now, timeOutStart,
                   globalStart, escPending, stState, stCnt, stTime,
                   waitSkipArg, triggered, prevTriggerTime,
                   deltaTriggerTimeArray, shown, polled, pollsInIter,
                   nReported, loopExit, logged, hist, exc>>

\* Lines 75-117: the window and the two text stimuli.
Stimuli ==
    /\ pc = "stimuli"
    /\ win' = "open"
    /\ pc' = "select"
    /\ UNCHANGED <<expInfo, portType, dummyScans, MR_settings, now,
                   timeOutStart, globalStart, escPending, stState, stCnt,
                   stTime, waitSkipArg, triggered, prevTriggerTime,
                   deltaTriggerTimeArray, shown, polled, pollsInIter,
                   nReported, loopExit, logged, hist, exc, trace>>

\* Lines 123-173: the device-specific settings, or ValueError.
SelectSettings ==
    /\ pc = "select"
    /\ portType' = expInfo.triggering
    /\ dummyScans' = expInfo.skip_scans
    /\ IF expInfo.triggering \in Recognized
         THEN /\ MR_settings' = Settings(expInfo.triggering, expInfo.skip_scans)
              /\ pc' = "init"
              /\ exc' = exc
         ELSE /\ MR_settings' = MR_settings
              /\ pc' = "crashed"
              /\ exc' = "ValueError_PortType"
    /\ UNCHANGED <<expInfo, win, now, timeOutStart, globalStart, escPending,
                   stState, stCnt, stTime, waitSkipArg, triggered,
                   prevTriggerTime, deltaTriggerTimeArray, shown, polled,
                   pollsInIter, nReported, loopExit, logged, hist, trace>>

\* Lines 180-188: the two clocks and the empty delta list.
OtherInit ==
    /\ pc = "init"
    /\ timeOutStart' = now
    /\ globalStart' = now
    /\ deltaTriggerTimeArray' = <<>>
    /\ pc' = "open"
    /\ UNCHANGED <<expInfo, win, portType, dummyScans, MR_settings, now,
                   escPending, stState, stCnt, stTime, waitSkipArg, triggered,
                   prevTriggerTime, shown, polled, pollsInIter, nReported,
                   loopExit, logged, hist, exc, trace>>

\* Lines 190-207: create and open the trigger; on any exception flush the
\* log, print the error and quit.
OpenTrigger ==
    /\ pc = "open"
    /\ \E r \in LibOpenOutcomes :
         CASE r = "ok" ->
                /\ stState' = "open"
                /\ trace' = trace \o <<"create", "open">>
                /\ pc' = "run"
           [] r = "create_raises" ->
                /\ stState' = stState
                /\ trace' = trace \o <<"create", "flush", "print_error", "quit">>
                /\ pc' = HandlerNext("run")
           [] r = "open_raises" ->
                /\ stState' = "created"
                /\ trace' = trace \o <<"create", "open", "flush", "print_error", "quit">>
                /\ pc' = HandlerNext("run")
    /\ UNCHANGED <<expInfo, win, portType, dummyScans, MR_settings, now,
                   timeOutStart, globalStart, escPending, stCnt, stTime,
                   waitSkipArg, triggered, prevTriggerTime,
                   deltaTriggerTimeArray, shown, polled, pollsInIter,
                   nReported, loopExit, logged, hist, exc>>

\* Lines 213-223: the "Wait for trigger..." screen, then the call of
\* waitForTrigger, which blocks.
StartWait ==
    /\ pc = "run"
    /\ waitSkipArg' = SkipArg(dummyScans)
    /\ trace' = trace \o <<"draw_wait", "flip", "print_waiting", "waitForTrigger">>
    /\ pc' = "wait"
    /\ UNCHANGED <<expInfo, win, portType, dummyScans, MR_settings, now,
                   timeOutStart, globalStart, escPending, stState, stCnt,
                   stTime, triggered, prevTriggerTime, deltaTriggerTimeArray,
                   shown, polled, pollsInIter, nReported, loopExit, logged,
                   hist, exc>>

\* Lines 223-232: waitForTrigger returns for the first accepted trigger, or
\* raises; then lines 231-232 take its time and restart timeOutClock.
WaitReturn ==
    /\ pc = "wait"
    /\ \E r \in LibWaitOutcomes, t0 \in LibFirstTimes(GlobalClock) :
         IF r = "trigger"
           THEN /\ triggered' = TRUE
                /\ stCnt' = LibFirstCnt(waitSkipArg)
                /\ globalStart' = now - t0
                /\ stTime' = t0
                /\ prevTriggerTime' = stTime'
                /\ timeOutStart' = now
                /\ trace' = Append(trace, "flush")
                /\ pc' = "check"
           ELSE /\ trace' = trace \o <<"flush", "print_error", "quit">>
                /\ pc' = HandlerNext("check")
                /\ UNCHANGED <<triggered, stCnt, globalStart, stTime,
                               prevTriggerTime, timeOutStart>>
    /\ UNCHANGED <<expInfo, win, portType, dummyScans, MR_settings, now,
                   escPending, stState, waitSkipArg, deltaTriggerTimeArray,
                   shown, polled, pollsInIter, nReported, loopExit, logged,
                   hist, exc>>

\* Line 234: the loop check.  event.getKeys empties the buffer of escape
\* keypresses; the clock is read only when none was returned.
LoopCheck ==
    /\ pc = "check"
    /\ escPending' = FALSE
    /\ pollsInIter' = 0
    /\ IF LoopCond(escPending, TimeOutClock)
         THEN /\ pc' = "body"
              /\ loopExit' = loopExit
         ELSE /\ pc' = "stats"
              /\ loopExit' = IF escPending THEN "escape" ELSE "timeout"
    /\ UNCHANGED <<expInfo, win, portType, dummyScans, MR_settings, now,
                   timeOutStart, globalStart, stState, stCnt, stTime,
                   waitSkipArg, triggered, prevTriggerTime,
                   deltaTriggerTimeArray, shown, polled, nReported, logged,
                   hist, exc, trace>>

\* Lines 235-247: one loop iteration.  A trigger reported by the previous
\* call is recorded and shown, then getTrigger polls for the next one.
LoopBody ==
    /\ pc = "body"
    /\ IF ShouldRecord(triggered)
         THEN LET deltaTriggerTime == stTime - prevTriggerTime IN
              /\ deltaTriggerTimeArray' = Append(deltaTriggerTimeArray, deltaTriggerTime)
              /\ shown' = Append(shown, Txt(stCnt, stTime, deltaTriggerTime, dummyScans))
              /\ prevTriggerTime' = NewPrev(prevTriggerTime, stTime)
         ELSE UNCHANGED <<deltaTriggerTimeArray, shown, prevTriggerTime>>
    /\ \E r \in LibPollResults(stCnt, waitSkipArg) :
         /\ triggered' = r
         /\ stCnt' = LibNextCnt(stCnt, r)
         /\ stTime' = LibNextTime(stTime, r, GlobalClock)
         /\ nReported' = IF r THEN nReported + 1 ELSE nReported
    /\ polled' = TRUE
    /\ pollsInIter' = pollsInIter + 1
    /\ pc' = "check"
    /\ UNCHANGED <<expInfo, win, portType, dummyScans, MR_settings, now,
                   timeOutStart, globalStart, escPending, stState,
                   waitSkipArg, loopExit, logged, hist, exc, trace>>

\* Lines 253-268: the statistics of deltaTriggerTimeArray[1:] and the
\* histogram.  On an empty array mean and std log nan and max raises.
DataOutput ==
    /\ pc = "stats"
    /\ LET delta == DropFirst(deltaTriggerTimeArray) IN
         IF MaxRaises(delta)
           THEN /\ logged' = <<[name |-> "Mean", value |-> Mean(delta)],
                               [name |-> "Stdev", value |-> Variance(delta)]>>
                /\ exc' = "ValueError_ZeroSize"
                /\ pc' = "crashed"
                /\ UNCHANGED <<hist, trace>>
           ELSE /\ logged' = <<[name |-> "Mean", value |-> Mean(delta)],
                               [name |-> "Stdev", value |-> Variance(delta)],
                               [name |-> "Max", value |-> <<Max(delta), 1>>],
                               [name |-> "Min", value |-> <<Min(delta), 1>>]>>
                /\ hist' = [shown |-> TRUE,
                            bins |-> BinWidth(Len(deltaTriggerTimeArray)),
                            n |-> Len(delta)]
                /\ trace' = trace \o <<"flush", "hist">>
                /\ pc' = "shutdown"
                /\ exc' = exc
    /\ UNCHANGED <<expInfo, win, portType, dummyScans, MR_settings, now,
                   timeOutStart, globalStart, escPending, stState, stCnt,
                   stTime, waitSkipArg, triggered, prevTriggerTime,
                   deltaTriggerTimeArray, shown, polled, pollsInIter,
                   nReported, loopExit>>

\* Lines 270-272: close the trigger and the window, quit.
Shutdown ==
    /\ pc = "shutdown"
    /\ stState' = "closed"
    /\ win' = "closed"
    /\ trace' = trace \o <<"st.close", "win.close", "quit">>
    /\ pc' = "quit"
    /\ UNCHANGED <<expInfo, portType, dummyScans, MR_settings, now,
                   timeOutStart, globalStart, escPending, stCnt, stTime,
                   waitSkipArg, triggered, prevTriggerTime,
                   deltaTriggerTimeArray, shown, polled, pollsInIter,
                   nReported, loopExit, logged, hist, exc>>

----------------------------------------------------------------------------
\* The environment: the clock and the keyboard.

\* Time passes while waitForTrigger blocks and while the loop runs.
Tick ==
    /\ \/ pc = "wait" /\ TimeOutClock < MaxWait
       \/ pc \in {"check", "body"} /\ TimeOutClock < MaxElapsed
    /\ now' = now + TickLen
    /\ UNCHANGED <<pc, expInfo, win, portType, dummyScans, MR_settings,
                   timeOutStart, globalStart, escPending, stState, stCnt,
                   stTime, waitSkipArg, triggered, prevTriggerTime,
                   deltaTriggerTimeArray, shown, polled, pollsInIter,
                   nReported, loopExit, logged, hist, exc, trace>>

\* The escape key is pressed while the loop runs.
KeyPress ==
    /\ pc \in {"check", "body"}
    /\ ~escPending
    /\ escPending' = TRUE
    /\ UNCHANGED <<pc, expInfo, win, portType, dummyScans, MR_settings, now,
                   timeOutStart, globalStart, stState, stCnt, stTime,
                   waitSkipArg, triggered, prevTriggerTime,
                   deltaTriggerTimeArray, shown, polled, pollsInIter,
                   nReported, loopExit, logged, hist, exc, trace>>

----------------------------------------------------------------------------
Next ==
    \/ Dialog
    \/ Stimuli
    \/ SelectSettings
    \/ OtherInit
    \/ OpenTrigger
    \/ StartWait
    \/ WaitReturn
    \/ LoopCheck
    \/ LoopBody
    \/ DataOutput
    \/ Shutdown
    \/ Tick
    \/ KeyPress

Spec == Init /\ [][Next]_vars

\* The clock advances and every poll and every loop check returns.
FairSpec ==
    /\ Spec
    /\ WF_vars(Tick)
    /\ WF_vars(LoopCheck)
    /\ WF_vars(LoopBody)

----------------------------------------------------------------------------
\* Vocabulary of the properties.

InTrace(e) == \E i \in 1..Len(trace) : trace[i] = e

Count(e) == Cardinality({i \in 1..Len(trace) : trace[i] = e})

Pos(e) == CHOOSE i \in 1..Len(trace) : trace[i] = e

\* The process has ended: core.quit() or an unhandled exception.
Terminated == pc \in {"quit", "crashed"}

\* The script is at a loop check, or the loop has ended.
AtCheckOrAfter == pc = "check" \/ loopExit # "none"

\* st.open() has succeeded.
Opened == stState \in {"open", "closed"}

----------------------------------------------------------------------------
\* C1 (as stated): at every loop check and after the loop, the length of
\* deltaTriggerTimeArray is the number of getTrigger calls that have
\* reported a trigger; the first trigger contributes no entry.
C1_LengthIsReported ==
    AtCheckOrAfter => Len(deltaTriggerTimeArray) = nReported

\* C1 (amended): at every loop check and after the loop, the length of
\* deltaTriggerTimeArray is 0 before the first iteration has run, and
\* afterwards one (the first accepted trigger, recorded with delta 0) plus
\* the number of getTrigger calls that have reported a trigger, less one
\* when the latest poll reported a trigger, which no iteration has recorded
\* yet.
C1_LengthIsRecorded ==
    AtCheckOrAfter =>
        Len(deltaTriggerTimeArray) =
            IF ~polled THEN 0
            ELSE 1 + nReported - (IF triggered THEN 1 ELSE 0)

C1_Witness ==
    /\ loopExit # "none"
    /\ nReported = 2
    /\ triggered
    /\ Len(deltaTriggerTimeArray) = 2

----------------------------------------------------------------------------
\* C2: once waitForTrigger has returned the loop ends; a loop check leaves
\* the loop exactly when an escape keypress is pending or timeOutClock reads
\* TimeOut or more, and otherwise enters the body; after the loop has ended
\* no check and no body runs.
C2_LoopEnds ==
    /\ (pc = "check") ~> (pc = "stats")
    /\ [][(pc = "check" /\ pc' # "check") =>
            /\ pc' \in {"body", "stats"}
            /\ (pc' = "stats") <=> (escPending \/ now - timeOutStart >= 100)]_vars
    /\ [][loopExit # "none" => pc' \notin {"check", "body"}]_vars

C2_Witness ==
    /\ pc = "stats"
    /\ loopExit = "timeout"
    /\ now - timeOutStart >= 100
    /\ polled

----------------------------------------------------------------------------
\* C3: when create/open or waitForTrigger raises, the script flushes the
\* log, prints the error and quits: getTrigger is never called, no delta is
\* recorded, no statistics and no histogram are produced, and after a
\* create/open failure waitForTrigger is never called.
C3_ErrorQuits ==
    InTrace("print_error") =>
        /\ pc = "quit"
        /\ Len(trace) >= 3
        /\ SubSeq(trace, Len(trace) - 2, Len(trace)) = <<"flush", "print_error", "quit">>
        /\ ~polled
        /\ deltaTriggerTimeArray = <<>>
        /\ logged = <<>>
        /\ ~hist.shown
        /\ (~Opened => ~InTrace("waitForTrigger"))

C3_Witness ==
    /\ InTrace("print_error")
    /\ InTrace("waitForTrigger")
    /\ Opened
    /\ pc = "quit"

----------------------------------------------------------------------------
\* C4: a device type outside {keyboard, dummy, serial, parallel, cedrus,
\* launchscan} ends the script with an unhandled ValueError before create,
\* open, waitForTrigger or getTrigger is called; a device type inside the
\* set raises no such error and MR_settings is bound before create.
C4_PortType ==
    (pc \notin {"dialog", "stimuli", "select"} /\ win # "none") =>
        IF portType \in {"keyboard", "dummy", "serial", "parallel", "cedrus", "launchscan"}
          THEN /\ exc # "ValueError_PortType"
               /\ "undefined" \notin DOMAIN MR_settings
          ELSE /\ pc = "crashed"
               /\ exc = "ValueError_PortType"
               /\ ~InTrace("create")
               /\ ~InTrace("open")
               /\ ~InTrace("waitForTrigger")
               /\ stState = "none"
               /\ ~polled

C4_Witness ==
    /\ pc = "crashed"
    /\ exc = "ValueError_PortType"
    /\ portType = "usb"

----------------------------------------------------------------------------
\* C5: the stages come in order: create and open, then the one
\* waitForTrigger call, then the getTrigger polls of the loop, then the
\* statistics and the histogram; getTrigger is never called before
\* waitForTrigger has returned without error, and the statistics are never
\* computed while the loop can still run.
C5_StageOrder ==
    /\ Count("create") <= 1 /\ Count("open") <= 1
    /\ Count("waitForTrigger") <= 1 /\ Count("hist") <= 1
    /\ InTrace("open") => InTrace("create") /\ Pos("create") < Pos("open")
    /\ InTrace("waitForTrigger") => Opened /\ Pos("open") < Pos("waitForTrigger")
    /\ (polled \/ pc = "body") =>
          /\ InTrace("waitForTrigger")
          /\ ~InTrace("print_error")
          /\ pc # "wait"
    /\ (logged # <<>> \/ hist.shown) =>
          /\ loopExit # "none"
          /\ pc \notin {"check", "body"}
    /\ InTrace("hist") => InTrace("waitForTrigger") /\ Pos("waitForTrigger") < Pos("hist")

C5_Witness ==
    /\ hist.shown
    /\ polled
    /\ nReported = 2
    /\ pc = "quit"

----------------------------------------------------------------------------
\* C6 (as stated): whenever the loop has ended, by escape or by timeout, the
\* script logs mean, standard deviation, maximum and minimum and displays
\* the histogram, whatever the number of triggers recorded.
C6_StatsAlways ==
    (Terminated /\ loopExit # "none") => (Len(logged) = 4 /\ hist.shown)

----------------------------------------------------------------------------
\* C7: the configured skip count n is the skip passed to waitForTrigger;
\* every text displayed and every delta recorded belongs to a trigger
\* numbered n or more, one text per delta; the first text displayed is that
\* of the trigger waitForTrigger returned for, with trigger number n.
C7_SkipScans ==
    /\ waitSkipArg # -1 => waitSkipArg = expInfo.skip_scans
    /\ Len(shown) = Len(deltaTriggerTimeArray)
    /\ \A i \in 1..Len(shown) :
          /\ shown[i].cnt = expInfo.skip_scans + i - 1
          /\ shown[i].skip = expInfo.skip_scans
    /\ shown # <<>> =>
          /\ shown[1].cnt = expInfo.skip_scans
          /\ shown[1].delta = 0

C7_Witness ==
    /\ expInfo.skip_scans = 1
    /\ waitSkipArg = 1
    /\ Len(shown) = 2
    /\ shown[1].cnt = 1

----------------------------------------------------------------------------
\* C8: at every loop check prevTriggerTime is the time of the most recently
\* recorded trigger; every delta is the time of the trigger recorded minus
\* the time of the trigger recorded before it; the deltas used for the
\* statistics sum to the last recorded trigger time minus the first.
C8_Deltas ==
    /\ (pc = "check" /\ shown # <<>>) =>
          prevTriggerTime = shown[Len(shown)].onset
    /\ \A i \in 2..Len(deltaTriggerTimeArray) :
          deltaTriggerTimeArray[i] = shown[i].onset - shown[i - 1].onset
    /\ deltaTriggerTimeArray # <<>> =>
          /\ deltaTriggerTimeArray[1] = 0
          /\ SumSeq(Tail(deltaTriggerTimeArray)) = shown[Len(shown)].onset - shown[1].onset
    /\ (logged # <<>> /\ shown # <<>>) =>
          logged[1].value[1] = shown[Len(shown)].onset - shown[1].onset

C8_Witness ==
    /\ pc = "check"
    /\ Len(deltaTriggerTimeArray) = 3
    /\ deltaTriggerTimeArray[2] > 0
    /\ deltaTriggerTimeArray[3] > 0
    /\ deltaTriggerTimeArray[2] # deltaTriggerTimeArray[3]

----------------------------------------------------------------------------
\* C9: an iteration with triggered false leaves the delta list,
\* prevTriggerTime and the displayed text as they are; every iteration polls
\* getTrigger exactly once; while the loop runs the list, prevTriggerTime
\* and the display change only in an iteration with triggered true, and then
\* the list grows by one entry, one text is displayed and prevTriggerTime
\* takes the trigger time.
C9_Frame ==
    [][/\ (pc = "body" /\ pc' # "body") =>
             /\ pollsInIter = 0 /\ pollsInIter' = 1
             /\ ~triggered =>
                   /\ deltaTriggerTimeArray' = deltaTriggerTimeArray
                   /\ prevTriggerTime' = prevTriggerTime
                   /\ shown' = shown
             /\ triggered =>
                   /\ Len(deltaTriggerTimeArray') = Len(deltaTriggerTimeArray) + 1
                   /\ Len(shown') = Len(shown) + 1
                   /\ prevTriggerTime' = stTime
       /\ (/\ pc \in {"check", "body"}
           /\ \/ deltaTriggerTimeArray' # deltaTriggerTimeArray
              \/ shown' # shown
              \/ prevTriggerTime' # prevTriggerTime) =>
             (pc = "body" /\ triggered)]_vars

C9_Witness ==
    /\ pc = "check"
    /\ pollsInIter = 1
    /\ ~triggered
    /\ nReported = 1
    /\ Len(shown) = 2

----------------------------------------------------------------------------
\* C10 (as stated): in every run in which st.open() succeeded, st.close()
\* and win.close() have been called when the process ends.
C10_ClosedAtExit ==
    (Terminated /\ Opened) => (stState = "closed" /\ win = "closed")

====
